---------------------------- MODULE Spec2Model ----------------------------
(***************************************************************************)
(* A model of stumap/MSNGC/feature_extractor.py: the nuclear-stain         *)
(* binarizer (binarize_dapi), the density denoiser (preprocessing_data,    *)
(* preprocess and the re-normalisation in main) and the neighbourhood      *)
(* gene count (NGC).                                                       *)
(*                                                                         *)
(* Conventions.  Array indices are 0-based tuples <<row, col>> or          *)
(* <<row, col, depth>>.  A boolean array is a record [shape, on] where on  *)
(* is the set of indices holding True.  Exceptions end a run in            *)
(* pc = "raised" with the exception's type in error.                       *)
(***************************************************************************)
EXTENDS Integers, Sequences, FiniteSets, TLC

VARIABLES
    pc,                 \* position in the routine being run
    error,              \* exception raised ("none" while there is none)
    \* ---- preprocessing_data / preprocess / main
    spots,              \* the molecule table (rows of locations and gene)
    is_noise,           \* the table's is_noise column (<<>> before it exists)
    dapi_binary,        \* the binary mask: [shape, on]
    dapi_grid_interval, \* parameter
    LOF,                \* parameter
    contamination,      \* parameter, in percent
    xy_radius,          \* parameter
    pct_filter,         \* parameter, in percent (pct_filter * 100)
    dapi_coord,         \* local: sampled foreground voxels
    knn_fitted,         \* whether NearestNeighbors.fit has been reached
    dis_neighbors,      \* local: density score of each molecule
    res_num_neighbors,  \* local: neighbour count of each molecule
    noisy_points,       \* local: molecules scoring below the percentile
    y_pred,             \* local: molecules the outlier detector flags
    spots_denoised,     \* main: the rows kept, re-indexed
    \* ---- NGC
    z_radius,           \* main's depth radius
    num_dims,           \* ambient: number of dimensions
    gene_list,          \* ambient: the gene vocabulary
    res_neighbors,      \* local of the last NGC call: neighbour rows per row
    ngc_R,              \* NGC(spots_denoised, xy_radius, z_radius)
    ngc_3R,             \* NGC(spots_denoised, xy_radius * 3, z_radius * 3)
    ngc_5R,             \* NGC(spots_denoised, xy_radius * 5, z_radius * 5)
    \* ---- binarize_dapi
    dapi,               \* the raw image: [shape, px]
    t,                  \* the page the 3D loop is at
    pages,              \* the list dapi_binary while the 3D loop runs
    thresh,             \* the last threshold used, in units of 1/512 (-1: none yet)
    otsu_flat,          \* threshold_otsu was called on a one-valued image
    dapi_stacked        \* the depth-wise maximum of the mask

\* the variables of NGC's runs
ngc_vars == <<z_radius, num_dims, gene_list, res_neighbors, ngc_R, ngc_3R, ngc_5R>>

\* the variables of binarize_dapi's runs
bin_vars == <<dapi, t, pages, thresh, otsu_flat, dapi_stacked>>

\* the denoiser's parameters and locals
params == <<spots, dapi_grid_interval, LOF, contamination, pct_filter>>

locals == <<dapi_coord, knn_fitted, dis_neighbors, res_num_neighbors,
            noisy_points, y_pred>>

vars == <<pc, error, is_noise, xy_radius, spots_denoised, dapi_binary, params,
          locals, ngc_vars, bin_vars>>

---------------------------------------------------------------------------
(* Bounds of the model *)

\* largest number of molecules in a table of the denoiser's runs
MaxSpots == 3

\* distances are kept in fixed point, in units of 1/Scale
Scale == 1000

---------------------------------------------------------------------------
(* Arithmetic helpers *)

Min(a, b) == IF a < b THEN a ELSE b

Max(a, b) == IF a > b THEN a ELSE b

Abs(a) == IF a < 0 THEN -a ELSE a

RECURSIVE SumSeq(_)
SumSeq(s) == IF s = <<>> THEN 0 ELSE Head(s) + SumSeq(Tail(s))

RECURSIVE ISqrtBetween(_, _, _)
ISqrtBetween(x, lo, hi) ==
    IF lo >= hi THEN lo
    ELSE LET mid == (lo + hi + 1) \div 2
         IN  IF mid * mid <= x THEN ISqrtBetween(x, mid, hi)
                               ELSE ISqrtBetween(x, lo, mid - 1)

\* floor of the square root
ISqrt(x) == ISqrtBetween(x, 0, Min(x, 46340))

\* squared Euclidean distance of two points of the same arity
Dist2(p, q) == SumSeq([a \in 1..Len(p) |-> (p[a] - q[a]) * (p[a] - q[a])])

\* Euclidean distance, in units of 1/Scale
Dist(p, q) == ISqrt(Dist2(p, q) * Scale * Scale)

\* ascending sort of a sequence of integers
RECURSIVE SortAsc(_)
SortAsc(s) ==
    IF s = <<>> THEN <<>>
    ELSE LET i == CHOOSE k \in 1..Len(s) : \A j \in 1..Len(s) : s[k] <= s[j]
             rest == [j \in 1..(Len(s) - 1) |-> IF j < i THEN s[j] ELSE s[j + 1]]
         IN  <<s[i]>> \o SortAsc(rest)

\* np.percentile(a, q), linear interpolation, times 100 (exact)
Percentile100(a, q) ==
    LET s   == SortAsc(a)
        n   == Len(s)
        pos == q * (n - 1)
        lo  == pos \div 100
        rem == pos % 100
        hi  == Min(lo + 1, n - 1)
    IN  100 * s[lo + 1] + rem * (s[hi + 1] - s[lo + 1])

---------------------------------------------------------------------------
(* preprocessing_data *)

\* the coordinate columns the denoiser reads: (location_2, location_1[, location_3])
SpotsArray(s, nd) ==
    [i \in 1..Len(s) |->
        IF nd = 3
        THEN <<s[i].spot_location_2, s[i].spot_location_1, s[i].spot_location_3>>
        ELSE <<s[i].spot_location_2, s[i].spot_location_1>>]

NDims(mask) == Len(mask.shape)

\* dapi_binary * sampling_mat, argwhere: foreground voxels on the sampling grid
SampleDapi(mask, interval) ==
    {v \in mask.on : \A a \in 1..Len(v) : v[a] % interval = 1}

\* the radius handed to NearestNeighbors
KnnRadius(nd, r) == IF nd = 3 THEN r * 2 ELSE r

\* radius_neighbors: is q within radius r of p
Within(p, q, r) == r >= 0 /\ Dist2(p, q) <= r * r

\* one neighbour's contribution to the density score
ScoreTerm(nd, p, q) == IF nd = 3 THEN Dist2(p, q) ELSE Dist(p, q)

RECURSIVE SumOverSet(_, _, _)
SumOverSet(nd, p, S) ==
    IF S = {} THEN 0
    ELSE LET q == CHOOSE x \in S : TRUE
         IN  ScoreTerm(nd, p, q) + SumOverSet(nd, p, S \ {q})

\* dis_neighbors: per molecule, the sum over its neighbours among all_points
DisNeighbors(arr, coord, nd, r) ==
    [i \in 1..Len(arr) |->
        SumSeq([j \in 1..Len(arr) |->
                   IF Within(arr[i], arr[j], r) THEN ScoreTerm(nd, arr[i], arr[j]) ELSE 0])
        + SumOverSet(nd, arr[i], {v \in coord : Within(arr[i], v, r)})]

\* res_num_neighbors: per molecule, the number of its neighbours among all_points
ResNumNeighbors(arr, coord, r) ==
    [i \in 1..Len(arr) |->
        Cardinality({j \in 1..Len(arr) : Within(arr[i], arr[j], r)})
        + Cardinality({v \in coord : Within(arr[i], v, r)})]

\* a variant: a score equal to the percentile counts as below it
BelowOrAtThresh(score, thresh100) == 100 * score <= thresh100

\* dis_neighbors < thresh
BelowThresh(score, thresh100) == 100 * score < thresh100

\* noisy_points: the molecules scoring below the percentile
NoisyPoints(dis, q) ==
    {i \in 1..Len(dis) : BelowThresh(dis[i], Percentile100(dis, q))}

\* the most molecules a detector with this contamination can flag
MaxOutliers(n, c) == IF n = 0 THEN 0 ELSE (c * (n - 1) + 99) \div 100

\* a variant: the location itself is used as the index
VoxelIndexNoShift(x) == x

\* the voxel a location is looked up at
VoxelIndex(x) == x - 1

\* numpy's index check and wrap-around of negative indices
ValidIndex(i, n) == -n <= i /\ i < n

WrapIndex(i, n) == IF i < 0 THEN i + n ELSE i

\* dapi_binary[...] at the voxel of location p; TRUE iff that voxel is set
MaskAt(mask, p) ==
    [a \in 1..Len(p) |-> WrapIndex(VoxelIndex(p[a]), mask.shape[a])] \in mask.on

\* a fancy-indexed read of the mask at location p raises IndexError
ReadRaises(mask, p) ==
    \E a \in 1..Len(p) : ~ValidIndex(VoxelIndex(p[a]), mask.shape[a])

\* inDAPI_points before the mask is read: the upper-bound check
InDAPIBound(mask, p) == \A a \in 1..Len(p) : VoxelIndex(p[a]) < mask.shape[a]

\* the unchecked read of the 2D branch over every molecule
UncheckedRaises(mask, arr) ==
    NDims(mask) = 2 /\ \E i \in 1..Len(arr) : ReadRaises(mask, arr[i])

\* the bounds-checked read of both branches
CheckedRaises(mask, arr) ==
    \E i \in 1..Len(arr) : InDAPIBound(mask, arr[i]) /\ ReadRaises(mask, arr[i])

\* a variant: the bound check alone, the mask's value never copied in
InDAPIPointsUntested(mask, arr) ==
    {i \in 1..Len(arr) : InDAPIBound(mask, arr[i])}

\* inDAPI_points after the loop: in bounds and on a set voxel
InDAPIPoints(mask, arr) ==
    {i \in 1..Len(arr) : InDAPIBound(mask, arr[i]) /\ MaskAt(mask, arr[i])}

\* spots.loc[rows, 'is_noise'] = v
SetRows(col, rows, v) == [i \in 1..Len(col) |-> IF i \in rows THEN v ELSE col[i]]

\* is_noise + 1, then minus the column minimum and 1 (main)
Renormalise(col) ==
    LET plus == [i \in 1..Len(col) |-> col[i] + 1]
        m    == CHOOSE x \in {plus[i] : i \in 1..Len(plus)} :
                    \A i \in 1..Len(plus) : x <= plus[i]
    IN  [i \in 1..Len(plus) |-> plus[i] - m - 1]

\* the rows of spots.loc[spots['is_noise'] == 0], in table order
RECURSIVE KeptRows(_, _)
KeptRows(col, i) ==
    IF i > Len(col) THEN <<>>
    ELSE (IF col[i] = 0 THEN <<i>> ELSE <<>>) \o KeptRows(col, i + 1)

---------------------------------------------------------------------------
(* The inputs of the denoiser's runs *)

Molecule(row, col, depth, g) ==
    [spot_location_1 |-> col, spot_location_2 |-> row, spot_location_3 |-> depth,
     gene |-> g]

\* candidate locations <<row, col, depth>>; depth is not read in 2D
Locations(nd) ==
    IF nd = 3
    THEN {<<1, 1, 1>>, <<2, 2, 2>>, <<0, 0, 1>>, <<5, 5, 1>>, <<-3, 1, 1>>}
    ELSE {<<1, 1, 0>>, <<2, 2, 0>>, <<0, 0, 0>>, <<5, 5, 0>>, <<6, 6, 0>>}

Tables(nd) ==
    UNION {[1..n -> {Molecule(l[1], l[2], l[3], 1) : l \in Locations(nd)}] :
              n \in 1..MaxSpots}

Masks ==
    {[shape |-> <<3, 3>>, on |-> S] : S \in SUBSET {<<0, 0>>, <<1, 1>>}}
    \cup {[shape |-> <<10, 10>>, on |-> {<<5, 5>>}]}
    \cup {[shape |-> <<3, 3, 2>>, on |-> S] : S \in SUBSET {<<0, 0, 0>>, <<1, 1, 1>>}}

\* binarize_dapi is not running
BinIdle ==
    /\ dapi = [shape |-> <<>>, px |-> <<>>]
    /\ t = 0
    /\ pages = <<>>
    /\ thresh = -1
    /\ otsu_flat = FALSE
    /\ dapi_stacked = [shape |-> <<>>, on |-> {}]

\* no NGC call has been made
NGCIdle ==
    /\ z_radius = 0
    /\ num_dims = 0
    /\ gene_list = <<>>
    /\ res_neighbors = <<>>
    /\ ngc_R = <<>>
    /\ ngc_3R = <<>>
    /\ ngc_5R = <<>>

Init ==
    /\ pc = "start"
    /\ error = "none"
    /\ dapi_binary \in Masks
    /\ spots \in Tables(NDims(dapi_binary))
    /\ is_noise = <<>>
    /\ dapi_grid_interval \in {4, 5}
    /\ LOF \in BOOLEAN
    /\ contamination \in {10, 50}
    /\ xy_radius \in {0, 2}
    /\ pct_filter \in {10, 100, 150}
    /\ dapi_coord = {}
    /\ knn_fitted = FALSE
    /\ dis_neighbors = <<>>
    /\ res_num_neighbors = <<>>
    /\ noisy_points = {}
    /\ y_pred = {}
    /\ spots_denoised = <<>>
    /\ NGCIdle
    /\ BinIdle

---------------------------------------------------------------------------
(* The steps of preprocessing_data, and of main after it *)

\* the background sample and the combined point set
Sample ==
    /\ pc = "start"
    /\ dapi_coord' = SampleDapi(dapi_binary, dapi_grid_interval)
    /\ pc' = "sampled"
    /\ UNCHANGED <<error, is_noise, knn_fitted, dis_neighbors, res_num_neighbors,
                   noisy_points, y_pred, spots_denoised, xy_radius, dapi_binary, params,
                   ngc_vars, bin_vars>>

\* knn.fit(all_points) and knn.radius_neighbors(spots_array)
RadiusNeighbors ==
    /\ pc = "sampled"
    /\ LET nd  == NDims(dapi_binary)
           arr == SpotsArray(spots, nd)
           r   == KnnRadius(nd, xy_radius)
       IN  /\ dis_neighbors' = DisNeighbors(arr, dapi_coord, nd, r)
           /\ res_num_neighbors' = ResNumNeighbors(arr, dapi_coord, r)
    /\ knn_fitted' = TRUE
    /\ pc' = "queried"
    /\ UNCHANGED <<error, is_noise, dapi_coord, noisy_points, y_pred,
                   spots_denoised, xy_radius, dapi_binary, params,
                   ngc_vars, bin_vars>>

\* global low-density removal; np.percentile raises outside [0, 100]
LowDensity ==
    /\ pc = "queried"
    /\ IF pct_filter < 0 \/ pct_filter > 100
       THEN /\ pc' = "raised"
            /\ error' = "ValueError"
            /\ UNCHANGED <<is_noise, noisy_points>>
       ELSE /\ noisy_points' = NoisyPoints(dis_neighbors, pct_filter)
            /\ is_noise' = SetRows([i \in 1..Len(spots) |-> 0], noisy_points', -1)
            /\ pc' = IF LOF THEN "lof" ELSE "inDAPI"
            /\ UNCHANGED error
    /\ UNCHANGED <<dapi_coord, knn_fitted, dis_neighbors, res_num_neighbors,
                   y_pred, spots_denoised, xy_radius, dapi_binary, params,
                   ngc_vars, bin_vars>>

\* LocalOutlierFactor.fit_predict: any set of molecules the contamination allows
OutlierDetector ==
    /\ pc = "lof"
    /\ \E Y \in SUBSET (1..Len(spots)) :
          /\ Cardinality(Y) <= MaxOutliers(Len(spots), contamination)
          /\ y_pred' = Y
          /\ is_noise' = SetRows(is_noise, Y, -1)
    /\ pc' = "inDAPI"
    /\ UNCHANGED <<error, dapi_coord, knn_fitted, dis_neighbors, res_num_neighbors,
                   noisy_points, spots_denoised, xy_radius, dapi_binary, params,
                   ngc_vars, bin_vars>>

\* is_noise after the mask override, when no read raises
Override(mask, arr, col) ==
    LET first == IF NDims(mask) = 2
                 THEN SetRows(col, {i \in 1..Len(arr) : MaskAt(mask, arr[i])}, 0)
                 ELSE col
    IN  SetRows(first, InDAPIPoints(mask, arr), 0)

\* spots in DAPI as inliers
SpotsInDAPI ==
    /\ pc = "inDAPI"
    /\ LET arr == SpotsArray(spots, NDims(dapi_binary))
       IN  IF UncheckedRaises(dapi_binary, arr) \/ CheckedRaises(dapi_binary, arr)
           THEN /\ pc' = "raised"
                /\ error' = "IndexError"
                /\ UNCHANGED is_noise
           ELSE /\ is_noise' = Override(dapi_binary, arr, is_noise)
                /\ pc' = "returned"
                /\ UNCHANGED error
    /\ UNCHANGED <<spots_denoised, xy_radius, dapi_binary, params,
                   locals, ngc_vars, bin_vars>>

\* main: the re-normalisation of is_noise after preprocess
MainRenormalise ==
    /\ pc = "returned"
    /\ is_noise' = Renormalise(is_noise)
    /\ pc' = "renormalised"
    /\ UNCHANGED <<error, spots_denoised, xy_radius, dapi_binary, params,
                   locals, ngc_vars, bin_vars>>

\* main: spots_denoised
MainSelect ==
    /\ pc = "renormalised"
    /\ spots_denoised' = [k \in 1..Len(KeptRows(is_noise, 1)) |->
                              spots[KeptRows(is_noise, 1)[k]]]
    /\ pc' = "selected"
    /\ UNCHANGED <<error, is_noise, xy_radius, dapi_binary, params,
                   locals, ngc_vars, bin_vars>>

Next ==
    \/ Sample
    \/ RadiusNeighbors
    \/ LowDensity
    \/ OutlierDetector
    \/ SpotsInDAPI
    \/ MainRenormalise
    \/ MainSelect

Spec == Init /\ [][Next]_vars

---------------------------------------------------------------------------
(* NGC *)

\* largest number of rows of the small tables handed to NGC
MaxNGCRows == 3

\* number of co-located molecules in the dense table handed to NGC
ClusterSize == 127

\* X_data: the coordinate columns NGC reads: (location_1, location_2[, location_3])
XData(s, nd) ==
    [i \in 1..Len(s) |->
        IF nd = 3
        THEN <<s[i].spot_location_1, s[i].spot_location_2, s[i].spot_location_3>>
        ELSE <<s[i].spot_location_1, s[i].spot_location_2>>]

\* the radius of the neighbour query
NGCRadius(nd, xy, z) == IF nd = 3 THEN Max(xy, z) ELSE xy

\* smaller_radius
SmallerRadius(radius, xy, z) == IF radius = xy THEN z ELSE xy

\* the depth test that prunes a 3D neighbour list: row j is kept for row i
DepthKept(X, i, j, smaller) == X[j][3] - X[i][3] <= smaller

\* res_neighbors: per row, the rows within the radius, depth-pruned in 3D
ResNeighbors(X, nd, xy, z) ==
    LET radius == NGCRadius(nd, xy, z)
    IN  [i \in 1..Len(X) |->
            {j \in 1..Len(X) :
                /\ Within(X[i], X[j], radius)
                /\ nd = 3 => DepthKept(X, i, j, SmallerRadius(radius, xy, z))}]

\* a count stored in an element of dtype int8
Int8(c) == ((c + 128) % 256) - 128

\* np.min(gene_list)
MinGene(genes) ==
    CHOOSE g \in {genes[k] : k \in 1..Len(genes)} : \A k \in 1..Len(genes) : g <= genes[k]

\* res_ngc: row i, column c holds the number of neighbours of row i whose gene
\* minus the smallest gene of the vocabulary is c
NGCMatrix(s, nbrs, genes) ==
    [i \in 1..Len(s) |->
        [c \in 0..(Len(genes) - 1) |->
            Int8(Cardinality({j \in nbrs[i] : s[j].gene - MinGene(genes) = c}))]]

\* the sum of a row of an NGC matrix
RECURSIVE RowSumUpTo(_, _)
RowSumUpTo(row, c) == IF c < 0 THEN 0 ELSE row[c] + RowSumUpTo(row, c - 1)

RowSum(row) == RowSumUpTo(row, Cardinality(DOMAIN row) - 1)

---------------------------------------------------------------------------
(* The inputs of NGC's runs *)

NGCLocations == {<<0, 0, 0>>, <<1, 0, 0>>, <<0, 1, 0>>, <<10, 10, 0>>, <<0, 0, 2>>}

\* Scenario B: molecules at (0,0), (1,0), (0,1), (10,10), all of gene 1
ScenarioBTable ==
    <<Molecule(0, 0, 0, 1), Molecule(1, 0, 0, 1), Molecule(0, 1, 0, 1),
      Molecule(10, 10, 0, 1)>>

\* ClusterSize molecules of gene 1 in one place and one more, three pixels away
DenseTable ==
    [i \in 1..ClusterSize |-> Molecule(0, 0, 0, 1)] \o <<Molecule(0, 3, 0, 1)>>

NGCTables ==
    UNION {[1..n -> {Molecule(l[1], l[2], l[3], g) : l \in NGCLocations, g \in {1, 2}}] :
              n \in 0..MaxNGCRows}
    \cup {ScenarioBTable, DenseTable}

\* np.arange(1, num_gene + 1)
GeneList(num_gene) == [k \in 1..num_gene |-> k]

\* preprocessing_data is not running
DenoiserIdle ==
    /\ spots = <<>>
    /\ is_noise = <<>>
    /\ dapi_binary = [shape |-> <<>>, on |-> {}]
    /\ dapi_grid_interval = 0
    /\ LOF = FALSE
    /\ contamination = 0
    /\ pct_filter = 0
    /\ dapi_coord = {}
    /\ knn_fitted = FALSE
    /\ dis_neighbors = <<>>
    /\ res_num_neighbors = <<>>
    /\ noisy_points = {}
    /\ y_pred = {}

InitNGC ==
    /\ pc = "ngc"
    /\ error = "none"
    /\ DenoiserIdle
    /\ BinIdle
    /\ spots_denoised \in NGCTables
    /\ num_dims \in {2, 3}
    /\ \E r \in {<<2, 1>>, <<1, 2>>, <<10, 7>>} :
          /\ xy_radius = r[1]
          /\ z_radius = r[2]
    /\ \E num_gene \in 1..2 :
          /\ \A i \in 1..Len(spots_denoised) : spots_denoised[i].gene <= num_gene
          /\ gene_list = GeneList(num_gene)
    /\ res_neighbors = <<>>
    /\ ngc_R = <<>>
    /\ ngc_3R = <<>>
    /\ ngc_5R = <<>>

\* the neighbour lists of NGC(spots_denoised, xy_radius * k, z_radius * k)
NeighborsAt(k) ==
    ResNeighbors(XData(spots_denoised, num_dims), num_dims, xy_radius * k, z_radius * k)

\* ngc_R = NGC(spots_denoised, xy_radius, z_radius); knn.fit raises on no rows
CallNGC_R ==
    /\ pc = "ngc"
    /\ IF Len(spots_denoised) = 0
       THEN /\ pc' = "raised"
            /\ error' = "ValueError"
            /\ UNCHANGED <<res_neighbors, ngc_R>>
       ELSE /\ res_neighbors' = NeighborsAt(1)
            /\ ngc_R' = NGCMatrix(spots_denoised, res_neighbors', gene_list)
            /\ pc' = "ngc_R"
            /\ UNCHANGED error
    /\ UNCHANGED <<is_noise, xy_radius, spots_denoised, dapi_binary, params,
                   locals, bin_vars, z_radius, num_dims, gene_list, ngc_3R, ngc_5R>>

\* ngc_3R = NGC(spots_denoised, xy_radius * 3, z_radius * 3)
CallNGC_3R ==
    /\ pc = "ngc_R"
    /\ res_neighbors' = NeighborsAt(3)
    /\ ngc_3R' = NGCMatrix(spots_denoised, res_neighbors', gene_list)
    /\ pc' = "ngc_3R"
    /\ UNCHANGED <<error, is_noise, xy_radius, spots_denoised, dapi_binary, params,
                   locals, bin_vars, z_radius, num_dims, gene_list, ngc_R, ngc_5R>>

\* ngc_5R = NGC(spots_denoised, xy_radius * 5, z_radius * 5)
CallNGC_5R ==
    /\ pc = "ngc_3R"
    /\ res_neighbors' = NeighborsAt(5)
    /\ ngc_5R' = NGCMatrix(spots_denoised, res_neighbors', gene_list)
    /\ pc' = "ngc_5R"
    /\ UNCHANGED <<error, is_noise, xy_radius, spots_denoised, dapi_binary, params,
                   locals, bin_vars, z_radius, num_dims, gene_list, ngc_R, ngc_3R>>

NextNGC ==
    \/ CallNGC_R
    \/ CallNGC_3R
    \/ CallNGC_5R

SpecNGC == InitNGC /\ [][NextNGC]_vars

---------------------------------------------------------------------------
(* binarize_dapi, with fast_preprocess = False and gauss_blur = False, as    *)
(* main sets them.  Intensities are non-negative integers.                   *)

\* number of columns of an image (images have one row)
ImageWidth == 4

\* number of pages of a 3D image
ImageDepth == 2

\* largest intensity of a pixel
MaxIntensity == 2

\* number of bins of threshold_otsu's histogram (its default)
OtsuBins == 256

SetMin(S) == CHOOSE x \in S : \A y \in S : x <= y

SetMax(S) == CHOOSE x \in S : \A y \in S : x >= y

\* the pixels of an image within k of pixel p on both axes
Window(img, p, k) ==
    {q \in DOMAIN img : Abs(q[1] - p[1]) <= k /\ Abs(q[2] - p[2]) <= k}

\* erosion(image, square(5)): the minimum over the 5x5 window
Erosion(img) == [p \in DOMAIN img |-> SetMin({img[q] : q \in Window(img, p, 2)})]

\* reconstruction(seed, mask): dilate the seed under the mask until stable
RECURSIVE Reconstruction(_, _)
Reconstruction(seed, mask) ==
    LET grown == [p \in DOMAIN seed |->
                     Min(SetMax({seed[q] : q \in Window(seed, p, 1)}), mask[p])]
    IN  IF grown = seed THEN seed ELSE Reconstruction(grown, mask)

\* dapi_recon of one 2D image
Recon(img) == Reconstruction(Erosion(img), img)

\* np.unique(image)
Unique(img) == {img[p] : p \in DOMAIN img}

\* the histogram bin of value v of an image spanning lo..hi, lo < hi
OtsuBin(v, lo, hi) ==
    IF v = hi THEN OtsuBins - 1 ELSE ((v - lo) * OtsuBins) \div (hi - lo)

\* between-class variance of the split "values <= s | values > s", as a
\* fraction <<numerator, denominator>>; values enter by their bin centres,
\* in units of half a bin above lo
OtsuVariance(img, s) ==
    LET lo  == SetMin(Unique(img))
        hi  == SetMax(Unique(img))
        c(v) == 2 * OtsuBin(v, lo, hi) + 1
        n(v) == Cardinality({p \in DOMAIN img : img[p] = v})
        low  == {v \in Unique(img) : v <= s}
        high == {v \in Unique(img) : v > s}
        w(S) == SumSeq([k \in 1..(hi + 1) |-> IF (k - 1) \in S THEN n(k - 1) ELSE 0])
        m(S) == SumSeq([k \in 1..(hi + 1) |->
                           IF (k - 1) \in S THEN n(k - 1) * c(k - 1) ELSE 0])
        d    == m(low) * w(high) - m(high) * w(low)
    IN  <<d * d, w(low) * w(high)>>

\* threshold_otsu(image) of an image with at least two values: the centre of
\* the bin of the best split's upper class-1 value, in units of 1/512; equal
\* variances are told apart by floating-point rounding, so each is possible
OtsuThresholds(img) ==
    LET lo     == SetMin(Unique(img))
        hi     == SetMax(Unique(img))
        splits == Unique(img) \ {hi}
        best   == {s \in splits : \A s2 \in splits :
                      OtsuVariance(img, s)[1] * OtsuVariance(img, s2)[2]
                          >= OtsuVariance(img, s2)[1] * OtsuVariance(img, s)[2]}
    IN  {2 * OtsuBins * lo + (2 * OtsuBin(s, lo, hi) + 1) * (hi - lo) : s \in best}

\* the outcome of a call of threshold_otsu that raises ValueError
OtsuRaises == -1

\* what a call threshold_otsu(image) can do: return a threshold (in units of
\* 1/512) or, on a one-valued image, raise or return that value, depending
\* on the library's version
OtsuOutcomes(img) ==
    IF Cardinality(Unique(img)) < 2
    THEN {OtsuRaises} \cup {2 * OtsuBins * v : v \in Unique(img)}
    ELSE OtsuThresholds(img)

\* binary = image >= thresh, as the set of pixels holding True
AtLeast(img, th) == {p \in DOMAIN img : 2 * OtsuBins * img[p] >= th}

\* the threshold used when the reconstructed page has fewer than two values
FallbackThresh == 0

\* dapi[:, :, k] (k counts from 0)
Page(img, k) ==
    [p \in {<<q[1], q[2]>> : q \in DOMAIN img.px} |-> img.px[<<p[1], p[2], k>>]]

\* np.array(dapi_binary).transpose((1, 2, 0)): page k becomes depth index k
Stack(pp) == {<<p[1], p[2], k - 1>> : p \in UNION {pp[j] : j \in 1..Len(pp)},
                                       k \in 1..Len(pp)}
             \cap UNION {{<<p[1], p[2], k - 1>> : p \in pp[k]} : k \in 1..Len(pp)}

\* a variant: the zero-intensity voxels are not cleared
ZeroRawSkipped(on, img) == on

\* dapi_binary[dapi == 0] = False
ZeroRaw(on, img) == {p \in on : img.px[p] # 0}

\* np.amax(dapi_binary, axis=2)
AMax(on) == {<<p[1], p[2]>> : p \in on}

---------------------------------------------------------------------------
(* The inputs of binarize_dapi's runs *)

Pixels2D == {<<0, c>> : c \in 0..(ImageWidth - 1)}

Pixels3D == {<<0, c, k>> : c \in 0..(ImageWidth - 1), k \in 0..(ImageDepth - 1)}

\* every 2D image
Images2D ==
    {[shape |-> <<1, ImageWidth>>, px |-> f] : f \in [Pixels2D -> 0..MaxIntensity]}

\* the 3D images whose pages are constant, and those with one pixel changed
Images3D ==
    LET flat(g) == [p \in Pixels3D |-> g[p[3]]]
        consts  == {flat(g) : g \in [0..(ImageDepth - 1) -> 0..MaxIntensity]}
        spotted == {[f EXCEPT ![q] = v] :
                       f \in consts, q \in Pixels3D, v \in 0..MaxIntensity}
    IN  {[shape |-> <<1, ImageWidth, ImageDepth>>, px |-> f] : f \in spotted}

InitBin ==
    /\ pc = "binarize"
    /\ error = "none"
    /\ dapi \in Images2D \cup Images3D
    /\ t = 0
    /\ pages = <<>>
    /\ thresh = -1
    /\ otsu_flat = FALSE
    /\ dapi_stacked = [shape |-> <<>>, on |-> {}]
    /\ DenoiserIdle
    /\ NGCIdle
    /\ is_noise = <<>>
    /\ xy_radius = 0
    /\ spots_denoised = <<>>

rest_vars == <<is_noise, xy_radius, spots_denoised, params, locals, ngc_vars>>

\* degree == 2: erosion, reconstruction, threshold_otsu, zeroing
Binarize2D ==
    /\ pc = "binarize"
    /\ Len(dapi.shape) = 2
    /\ LET recon == Recon(dapi.px)
       IN  \E o \in OtsuOutcomes(recon) :
              /\ otsu_flat' = (otsu_flat \/ Cardinality(Unique(recon)) < 2)
              /\ IF o = OtsuRaises
                 THEN /\ pc' = "raised"
                      /\ error' = "ValueError"
                      /\ UNCHANGED <<thresh, dapi_binary, dapi_stacked>>
                 ELSE /\ thresh' = o
                      /\ dapi_binary' = [shape |-> dapi.shape,
                                         on |-> ZeroRaw(AtLeast(recon, o), dapi)]
                      /\ dapi_stacked' = dapi_binary'
                      /\ pc' = "binarized"
                      /\ UNCHANGED error
    /\ UNCHANGED <<dapi, t, pages, rest_vars>>

\* one pass of the loop over the pages of a 3D image
BinarizePage ==
    /\ pc = "binarize"
    /\ Len(dapi.shape) = 3
    /\ t < dapi.shape[3]
    /\ LET recon == Recon(Page(dapi, t))
       IN  IF Cardinality(Unique(recon)) < 2
           THEN /\ thresh' = FallbackThresh
                /\ pages' = Append(pages, AtLeast(recon, FallbackThresh))
                /\ UNCHANGED otsu_flat
           ELSE \E o \in OtsuOutcomes(recon) :
                   /\ thresh' = o
                   /\ pages' = Append(pages, AtLeast(recon, o))
                   /\ UNCHANGED otsu_flat
    /\ t' = t + 1
    /\ UNCHANGED <<pc, error, dapi, dapi_binary, dapi_stacked, rest_vars>>

\* after the loop: transpose, zeroing, depth-wise maximum
BinarizeStack ==
    /\ pc = "binarize"
    /\ Len(dapi.shape) = 3
    /\ t = dapi.shape[3]
    /\ dapi_binary' = [shape |-> dapi.shape, on |-> ZeroRaw(Stack(pages), dapi)]
    /\ dapi_stacked' = [shape |-> <<dapi.shape[1], dapi.shape[2]>>,
                        on |-> AMax(dapi_binary'.on)]
    /\ pc' = "binarized"
    /\ UNCHANGED <<error, dapi, t, pages, thresh, otsu_flat, rest_vars>>

NextBin ==
    \/ Binarize2D
    \/ BinarizePage
    \/ BinarizeStack

SpecBin == InitBin /\ [][NextBin]_vars

---------------------------------------------------------------------------
(* Claims about the denoiser, checked under Spec *)

\* the coordinates preprocessing_data reads, per molecule
Arr == SpotsArray(spots, NDims(dapi_binary))

Shape == dapi_binary.shape

Rows == 1..Len(spots)

\* the molecules either filter flagged
Flagged == noisy_points \cup y_pred

\* molecule i's location, read as a voxel index, is a set voxel of the mask
OnVoxelAtLocation(i) ==
    /\ \A a \in 1..Len(Shape) : 0 <= Arr[i][a] /\ Arr[i][a] < Shape[a]
    /\ Arr[i] \in dapi_binary.on

\* the voxel one below molecule i's location on every axis is a set voxel of the mask
OnVoxelBelowLocation(i) ==
    /\ \A a \in 1..Len(Shape) : 1 <= Arr[i][a] /\ Arr[i][a] <= Shape[a]
    /\ [a \in 1..Len(Shape) |-> Arr[i][a] - 1] \in dapi_binary.on

\* C1 as stated: once preprocessing_data has returned, every molecule whose
\* integer location is inside the mask and is a True voxel has is_noise = 0
\* (here in the runs where the outlier detector flagged nothing).
C1_LocationOnMask ==
    (pc = "returned" /\ y_pred = {}) =>
        \A i \in Rows : OnVoxelAtLocation(i) => is_noise[i] = 0

\* C1 amended: once preprocessing_data has returned, every molecule for which
\* location - 1 is, on every axis, an index inside the mask and the voxel at
\* that index is True has is_noise = 0, whatever the two filters had set.
C1_VoxelOnMask ==
    pc = "returned" =>
        \A i \in Rows : OnVoxelBelowLocation(i) => is_noise[i] = 0

\* a flagged molecule on a True voxel was reset by the override
C1_Witness ==
    /\ pc = "returned"
    /\ \E i \in Flagged : OnVoxelBelowLocation(i) /\ is_noise[i] = 0

\* the denoised set: the molecules with is_noise = 0
Denoised == {i \in Rows : is_noise[i] = 0}

\* the mask override resets molecule i: upper bound check passed, voxel set
\* (a negative index counts from the end of the axis)
ResetByMask(i) ==
    /\ \A a \in 1..Len(Shape) : Arr[i][a] - 1 < Shape[a]
    /\ [a \in 1..Len(Shape) |->
           IF Arr[i][a] - 1 < 0 THEN Arr[i][a] - 1 + Shape[a] ELSE Arr[i][a] - 1]
       \in dapi_binary.on

\* C2 as stated: the denoised set is no larger than the table, and as large
\* iff no molecule scored below the percentile and the detector flagged none
\* (here in the runs with the outlier detector off).
C2_EqualIffNoFlags ==
    (pc = "returned" /\ ~LOF) =>
        /\ Cardinality(Denoised) <= Len(spots)
        /\ Cardinality(Denoised) = Len(spots) <=> (noisy_points = {} /\ y_pred = {})

\* C2 amended: at the return of preprocessing_data the denoised set is no
\* larger than the table, and as large iff every molecule that scored below
\* the percentile or was flagged by the detector is reset by the mask override.
C2_EqualIffFlagsReset ==
    pc = "returned" =>
        /\ Cardinality(Denoised) <= Len(spots)
        /\ Cardinality(Denoised) = Len(spots) <=> (\A i \in Flagged : ResetByMask(i))

\* nothing is removed although a molecule scored below the percentile
C2_Witness ==
    /\ pc = "returned"
    /\ noisy_points # {}
    /\ Cardinality(Denoised) = Len(spots)

\* molecule i lies outside the mask's bounding box on some axis
OutsideMask(i) ==
    \E a \in 1..Len(Shape) : Arr[i][a] - 1 < 0 \/ Arr[i][a] - 1 >= Shape[a]

\* C5: a molecule outside the mask's bounding box never makes
\* preprocessing_data raise, and its flag stays as the filters set it.
C5_OutsideIsSkipped ==
    /\ (\E i \in Rows : OutsideMask(i)) => error # "IndexError"
    /\ pc = "returned" =>
          \A i \in Rows : OutsideMask(i) =>
              is_noise[i] = (IF i \in Flagged THEN -1 ELSE 0)

\* Scenario A: a 10x10 mask with the single True voxel (5,5), stride 5, one
\* molecule at (5,5) and one at (0,0), farther apart than the radius
ScenarioA ==
    /\ dapi_binary = [shape |-> <<10, 10>>, on |-> {<<5, 5>>}]
    /\ dapi_grid_interval = 5
    /\ Len(spots) = 2
    /\ {Arr[1], Arr[2]} = {<<5, 5>>, <<0, 0>>}
    /\ xy_radius > 0
    /\ xy_radius * xy_radius < 50
    /\ ~LOF

\* C6 as stated: in Scenario A the molecule at (0,0) ends flagged as noise
\* and the molecule at (5,5) ends with is_noise = 0.
C6_IsolatedIsNoise ==
    (ScenarioA /\ pc = "returned") =>
        \A i \in Rows : is_noise[i] = (IF Arr[i] = <<0, 0>> THEN -1 ELSE 0)

\* C6 amended: in Scenario A (outlier detector off) both molecules end with
\* is_noise = 0: each has only itself within the radius, the two density
\* scores are equal and neither is below the percentile.
C6_NeitherIsNoise ==
    (ScenarioA /\ pc = "returned") =>
        /\ noisy_points = {}
        /\ \A i \in Rows : is_noise[i] = 0

C6_Witness == ScenarioA /\ pc = "returned" /\ pct_filter = 10

\* C8: a radius <= 0 or a pct_filter outside [0, 1) ends preprocessing_data
\* before NearestNeighbors.fit is reached, with is_noise left as it was.
C8_FailsBeforeFit ==
    (xy_radius <= 0 \/ pct_filter < 0 \/ pct_filter >= 100) =>
        /\ ~knn_fitted
        /\ is_noise = <<>>
        /\ pc \notin {"returned", "renormalised", "selected"}

\* C10: the re-normalisation in main leaves every molecule's flag as the
\* denoiser assigned it.
C10_RenormaliseKeepsFlags ==
    [][(pc = "returned" /\ pc' = "renormalised") => is_noise' = is_noise]_vars

---------------------------------------------------------------------------
(* Claims about NGC, checked under SpecNGC *)

NGCRows == 1..Len(spots_denoised)

\* the matrix the last NGC call returned
LastNGC == IF pc = "ngc_R" THEN ngc_R ELSE IF pc = "ngc_3R" THEN ngc_3R ELSE ngc_5R

\* C3: every entry (i, g - 1) of the matrix NGC returns is the number of
\* molecules of gene g in row i's neighbour set, a non-negative integer, so
\* that each row sums to the size of the neighbour set.
C3_EntriesAreCounts ==
    pc \in {"ngc_R", "ngc_3R", "ngc_5R"} =>
        \A i \in NGCRows :
            /\ \A k \in 1..Len(gene_list) :
                  /\ LastNGC[i][gene_list[k] - 1] >= 0
                  /\ LastNGC[i][gene_list[k] - 1] =
                        Cardinality({j \in res_neighbors[i] :
                                        spots_denoised[j].gene = gene_list[k]})
            /\ RowSum(LastNGC[i]) = Cardinality(res_neighbors[i])

\* C4: for every row, the row sum at 3R is at least the row sum at R, and
\* the row sum at 5R at least that at 3R.
C4_RowSumsNested ==
    pc = "ngc_5R" =>
        \A i \in NGCRows :
            /\ RowSum(ngc_3R[i]) >= RowSum(ngc_R[i])
            /\ RowSum(ngc_5R[i]) >= RowSum(ngc_3R[i])

\* C9: in 3D the neighbour set of row i is exactly the rows within
\* max(planar, depth) of it whose depth differs by at most min(planar, depth);
\* in particular neighbourhood is symmetric.
C9_DepthWindow ==
    (pc = "ngc_R" /\ num_dims = 3) =>
        \A i, j \in NGCRows :
            /\ j \in res_neighbors[i] <=>
                  /\ Dist2(XData(spots_denoised, 3)[i], XData(spots_denoised, 3)[j])
                        <= Max(xy_radius, z_radius) * Max(xy_radius, z_radius)
                  /\ Abs(spots_denoised[j].spot_location_3
                            - spots_denoised[i].spot_location_3)
                        <= Min(xy_radius, z_radius)
            /\ j \in res_neighbors[i] <=> i \in res_neighbors[j]

---------------------------------------------------------------------------
(* Claims about binarize_dapi, checked under SpecBin *)

\* the image has one intensity everywhere (2D), or page by page (3D)
FlatImage ==
    IF Len(dapi.shape) = 2
    THEN Cardinality({dapi.px[p] : p \in DOMAIN dapi.px}) = 1
    ELSE \A k \in 0..(dapi.shape[3] - 1) :
             Cardinality({dapi.px[p] : p \in {q \in DOMAIN dapi.px : q[3] = k}}) = 1

==========================================================================
